---- MODULE Spec2Model ----
(***************************************************************************)
(* A model of friedrich's extendable containers (EMatrix, EVector in       *)
(* src/algebra/extendable_matrix.rs) and of the two parameter optimizers   *)
(* (optimize_parameters, scaled_optimize_parameters in                     *)
(* src/gaussian_process/optimizer.rs).                                     *)
(*                                                                         *)
(* Containers: a dense store is the sequence of its rows.  A row of an     *)
(* EVector is a number, a row of an EMatrix is a tuple of numbers.         *)
(* nalgebra's copy_from asserts that both sides have the same shape; a     *)
(* failed assertion is a panic, which ends the call where it stands and    *)
(* leaves the fields as they were written so far; a caller that catches    *)
(* the panic goes on using the container in that state.                    *)
(***************************************************************************)
EXTENDS Integers, Sequences, FiniteSets, TLC

VARIABLES
    \* --- the container (extendable_matrix.rs)
    kind,       \* "EMatrix" or "EVector": which container this one is
    data,       \* the backing store: data.nrows() = Len(data)
    nrows,      \* the logical size
    last,       \* the last call: its name, argument, outcome and the fields before it
    \* --- the optimizer call (optimizer.rs)
    variant,    \* "plain": optimize_parameters, "scaled": scaled_optimize_parameters
    pc,         \* the position of the call
    args,       \* max_iter, convergence_fraction, max_time
    kernel,     \* self.kernel
    noise,      \* self.noise
    covmat_cholesky, \* self.covmat_cholesky
    parameters, \* the local vector parameters
    i,          \* the loop index
    had_significant_progress,
    scale,      \* the scale of the current iteration (scaled variant)
    clock,      \* time_start and the value Utc::now() would return
    hist        \* what the call did so far: a record of its observable steps

bufVars == <<kind, data, nrows, last>>
optVars == <<variant, pc, args, kernel, noise, covmat_cholesky, parameters, i,
             had_significant_progress, scale, clock, hist>>
vars == <<bufVars, optVars>>

-----------------------------------------------------------------------------
(* Bounds of the container model *)

\* the largest required_size a call may ask for
MaxRows == 7
\* the most rows of one block passed to add_rows
MaxBlock == 3
\* the most rows of the block passed to new
MaxInitRows == 4
\* the largest logical size at which assign is called
MaxAssign == 4

\* std::f64::NAN, the fill value of a grown store; never supplied by a caller
NaN == -1

VectorRowValues == {1, 2}
MatrixRowValues == {<<1, 2>>, <<2, 1>>}

RowValues(k) == IF k = "EMatrix" THEN MatrixRowValues ELSE VectorRowValues

\* all blocks of n rows
BlocksOfLen(k, n) == [1..n -> RowValues(k)]

\* all blocks of lo..hi rows
Blocks(k, lo, hi) == UNION {BlocksOfLen(k, n) : n \in lo..hi}

\* self.data.ncols()
NCols(k) == IF k = "EMatrix" THEN 2 ELSE 1

\* one row of DMatrix::from_element(_, ncols, NAN) / DVector::from_element(_, NAN)
NaNRow(k) == IF k = "EMatrix" THEN [c \in 1..NCols(k) |-> NaN] ELSE NaN

Max(a, b) == IF a >= b THEN a ELSE b

-----------------------------------------------------------------------------
(* nalgebra pieces used by the containers *)

\* from_element(n, ncols, NAN): n rows of NaN
FromElement(k, n) == [r \in 1..n |-> NaNRow(k)]

\* the number of rows of the slice index((lo.., ..)) of a store of n rows,
\* with lo counted from 0 as in the source
TailRows(n, lo) == n - lo

\* copy_from on the rows lo+1 .. lo+Len(src) of dst (shapes already checked)
CopyInto(dst, lo, src) ==
    [r \in 1..Len(dst) |->
        IF r > lo /\ r <= lo + Len(src) THEN src[r - lo] ELSE dst[r]]

-----------------------------------------------------------------------------
(* EMatrix::add_rows / EVector::add_rows *)

GrowedCapacity(capacity) == (3 * capacity) \div 2

NewCapacity(required_size, capacity) ==
    Max(required_size, GrowedCapacity(capacity))

\* new_data.index_mut((..self.nrows, ..)).copy_from(&self.data):
\* the destination has self.nrows rows, the source is the whole old store
GrowCopyShapesAgree(d, n) == n = Len(d)

\* self.data.index_mut((self.nrows.., ..)).copy_from(&rows):
\* the destination is every row from self.nrows to the end of the store
TailCopyShapesAgree(d, n, rows) == TailRows(Len(d), n) = Len(rows)

\* The result of add_rows on fields (d, n): the fields afterwards and whether
\* the call returned (ok) or panicked.
AddRows(k, d, n, rows) ==
    LET capacity == Len(d)
        required_size == n + Len(rows)
        grows == required_size > capacity
        new_capacity == NewCapacity(required_size, capacity)
        grown == CopyInto(FromElement(k, new_capacity), 0, d)
    IN  IF grows /\ ~GrowCopyShapesAgree(d, n)
        THEN [data |-> d, nrows |-> n, ok |-> FALSE]
        ELSE LET d1 == IF grows THEN grown ELSE d
             IN  IF ~TailCopyShapesAgree(d1, n, rows)
                 THEN [data |-> d1, nrows |-> n, ok |-> FALSE]
                 ELSE [data |-> CopyInto(d1, n, rows),
                       nrows |-> n + Len(rows),
                       ok |-> TRUE]

\* a slip: the assertion only rejects values that are too long
AssignLengthOk_AtMost(n, rows) == Len(rows) <= n

\* EVector::assign: assert_eq!(rows.nrows(), self.nrows), then the copy
AssignLengthOk(n, rows) == Len(rows) = n

Assign(d, n, rows) ==
    IF ~AssignLengthOk(n, rows)
    THEN [data |-> d, nrows |-> n, ok |-> FALSE]
    ELSE [data |-> CopyInto(d, 0, rows), nrows |-> n, ok |-> TRUE]

\* a slip: the view is the whole store, self.data.index((.., ..))
ViewOf_WholeStore(d, n) == d

\* to_mslice / to_vslice: self.data.index((..self.nrows, ..))
ViewOf(d, n) == SubSeq(d, 1, n)

View == ViewOf(data, nrows)

-----------------------------------------------------------------------------
(* The container as a state machine *)

Call(op, rows, ok) ==
    [op |-> op, rows |-> rows, ok |-> ok, preData |-> data, preNrows |-> nrows]

\* EMatrix::new / EVector::new
BufInit ==
    /\ kind \in {"EMatrix", "EVector"}
    /\ data \in Blocks(kind, 0, MaxInitRows)
    /\ nrows = Len(data)
    /\ last = [op |-> "new", rows |-> data, ok |-> TRUE,
               preData |-> <<>>, preNrows |-> 0]

DoAddRows(rows) ==
    LET r == AddRows(kind, data, nrows, rows)
    IN  /\ nrows + Len(rows) <= MaxRows
        /\ data' = r.data
        /\ nrows' = r.nrows
        /\ last' = Call("add_rows", rows, r.ok)
        /\ UNCHANGED <<kind, optVars>>

EMatrix_add_rows ==
    /\ kind = "EMatrix"
    /\ \E rows \in Blocks(kind, 0, MaxBlock) : DoAddRows(rows)

EVector_add_rows ==
    /\ kind = "EVector"
    /\ \E rows \in Blocks(kind, 0, MaxBlock) : DoAddRows(rows)

EVector_assign ==
    /\ kind = "EVector"
    /\ nrows <= MaxAssign
    /\ \E rows \in Blocks(kind, Max(nrows - 1, 0), nrows + 1) :
          LET r == Assign(data, nrows, rows)
          IN  /\ data' = r.data
              /\ nrows' = r.nrows
              /\ last' = Call("assign", rows, r.ok)
              /\ UNCHANGED <<kind, optVars>>

\* no optimizer call is running while the container model runs
OptIdle ==
    /\ variant = "plain"
    /\ pc = "idle"
    /\ args = [max_iter |-> 0]
    /\ kernel = <<>>
    /\ noise = 0
    /\ covmat_cholesky = 0
    /\ parameters = <<>>
    /\ i = 0
    /\ had_significant_progress = FALSE
    /\ scale = 0
    /\ clock = 0
    /\ hist = 0

BufNext ==
    \/ EMatrix_add_rows
    \/ EVector_add_rows
    \/ EVector_assign

BufferInit == BufInit /\ OptIdle

BufferSpec == BufferInit /\ [][BufNext]_vars

-----------------------------------------------------------------------------
(* Numbers of the optimizer.                                               *)
(* An f64 x is held exactly as a record [n, d, e] with x = n/d * (1e-8)^e  *)
(* and d > 0, so that epsilon = 1e-8 and its products stay small integers. *)
(* A positive f64 that is written as e^x is held as [exp |-> x]: this is   *)
(* how the noise of the plain variant is held, whose logarithm is a        *)
(* parameter.                                                              *)

Real(n, d) == [n |-> n, d |-> d, e |-> 0]

\* a * b
Mul(a, b) == [n |-> a.n * b.n, d |-> a.d * b.d, e |-> a.e + b.e]

\* a == 0.
IsZero(a) == a.n = 0

Abs(x) == IF x < 0 THEN -x ELSE x

\* a.abs() > b, for a and b with no factor 1e-8
AbsGreater(a, b) == Abs(a.n) * b.d > b.n * a.d

\* 1. + delta
OnePlus(delta) == [n |-> delta.d + delta.n, d |-> delta.d, e |-> 0]

\* f64::exp and f64::ln
Exp(x) == [exp |-> x]
Ln(y) == y.exp

One == Real(1, 1)

\* let epsilon = 1e-8
epsilon == [n |-> 1, d |-> 1, e |-> 1]

\* let learning_rate = 0.1
learning_rate == Real(1, 10)

-----------------------------------------------------------------------------
(* Bounds and inputs of the optimizer model *)

\* the largest max_iter
MaxIter == 2

\* convergence_fraction: 0.05 (the documented default) and 0.2
Fractions == {Real(1, 20), Real(1, 5)}

\* max_time, in ticks of the clock
MaxTimes == {0, 3}

\* what one iteration costs, in ticks of the clock
IterCosts == {1, 2}

\* the kernel's parameters when the call starts
KernelInits(v) ==
    IF v = "plain"
    THEN {<<Real(0, 1)>>, <<Real(3, 1), Real(0, 1)>>}
    ELSE {<<Real(0, 1)>>, <<Real(-2, 1)>>}

\* the model's noise when the call starts: 1.0 and e for the plain variant,
\* 1/2 and 1 for the scaled one
NoiseInits(v) ==
    IF v = "plain"
    THEN {Exp(Real(0, 1)), Exp(Real(1, 1))}
    ELSE {Real(1, 2), One}

\* the scale scaled_gradient_marginal_likelihood returns: y' K^-1 y / n
Scales == {Real(1, 2), One, Real(2, 1)}

\* bias_corrected_mean / (bias_corrected_variance.sqrt() + epsilon): what the
\* running moments of the gradients make of the collaborator's gradient.  In
\* the first iteration it is g / (|g| + epsilon), of magnitude below 1.
AdamSteps == {Real(-1, 1), Real(0, 1), Real(1, 2)}

\* let delta = learning_rate * bias_corrected_mean / (...)
Delta(step) == Mul(learning_rate, step)

-----------------------------------------------------------------------------
(* The collaborators: the Kernel trait and make_cholesky_cov_matrix *)

\* the kernel is held as the vector of its parameters
Kernel_get_parameters(k) == k

\* a kernel reads its own parameters from the front of the slice
Kernel_set_parameters(k, v) == SubSeq(v, 1, Len(k))

\* rescaling multiplies the kernel's amplitude, its first parameter
Kernel_rescale(k, s) == [k EXCEPT ![1] = Mul(@, s)]

\* the factor is a function of the kernel and the noise (the training inputs
\* and cholesky_epsilon do not change during a call): it is held as the
\* arguments it was computed from
make_cholesky_cov_matrix(k, n) == [kernel |-> k, noise |-> n]

-----------------------------------------------------------------------------
(* The pieces of optimize_parameters and scaled_optimize_parameters *)

\* a slip: the parameters are taken as the kernel gives them
ReplaceZero_Keep(p) == p

\* .map(|&p| if p == 0. { epsilon } else { p })
ReplaceZero(p) == IF IsZero(p) THEN epsilon ELSE p

\* a slip: ln(noise) is put in front of the kernel's parameters
Plain_InitialParameters_NoiseFirst(k, n) ==
    <<Ln(n)>> \o [p \in 1..Len(k) |-> ReplaceZero(Kernel_get_parameters(k)[p])]

\* the setup of the plain variant: the kernel's parameters, then ln(noise)
Plain_InitialParameters(k, n) ==
    Append([p \in 1..Len(k) |-> ReplaceZero(Kernel_get_parameters(k)[p])], Ln(n))

\* the setup of the scaled variant: the kernel's parameters
Scaled_InitialParameters(k) ==
    [p \in 1..Len(k) |-> ReplaceZero(Kernel_get_parameters(k)[p])]

\* parameters[p] *= 1. + delta
Updated(param, delta) == Mul(param, OnePlus(delta))

\* had_significant_progress |= delta.abs() > convergence_fraction, over all p
SignificantProgress(deltas, fraction) ==
    \E p \in 1..Len(deltas) : AbsGreater(deltas[p], fraction)

\* what optimize_parameters passes to self.kernel.set_parameters
Plain_SetParametersArg(ps) == ps

\* self.noise = noise.exp() for the last entry of parameters
Plain_NewNoise(ps) == Exp(ps[Len(ps)])

\* a slip: self.noise = scale
Scaled_NewNoise_Assigned(n, s) == s

\* self.noise *= scale
Scaled_NewNoise(n, s) == Mul(n, s)

\* what scaled_optimize_parameters passes to self.kernel.rescale
Scaled_RescaleArg(s) == s

\* a slip: the factor is left as it is
Refit_Stale(k, n) == covmat_cholesky

\* self.covmat_cholesky = make_cholesky_cov_matrix(.., &self.kernel, self.noise, ..)
Refit(k, n) == make_cholesky_cov_matrix(k, n)

\* Utc::now().signed_duration_since(time_start)
Elapsed == clock.now - clock.time_start

\* a slip: && in place of ||
StopCondition_Both(progress, elapsed, max_time) ==
    (~progress) /\ (elapsed > max_time)

\* (!had_significant_progress) || (elapsed > max_time)
StopCondition(progress, elapsed, max_time) ==
    (~progress) \/ (elapsed > max_time)

-----------------------------------------------------------------------------
(* One call of an optimizer as a state machine *)

OptInit ==
    /\ variant \in {"plain", "scaled"}
    /\ pc = "setup"
    /\ args \in [max_iter : 0..MaxIter,
                 convergence_fraction : Fractions,
                 max_time : MaxTimes]
    /\ kernel \in KernelInits(variant)
    /\ noise \in NoiseInits(variant)
    /\ covmat_cholesky = make_cholesky_cov_matrix(kernel, noise)
    /\ parameters = <<>>
    /\ i = 0
    /\ had_significant_progress = FALSE
    /\ scale = One
    /\ clock = [time_start |-> 0, now |-> 0]
    /\ hist = [kernel0 |-> kernel, noise0 |-> noise, deltas |-> <<>>,
               scales |-> <<>>, set_parameters |-> <<>>, rescale |-> <<>>,
               elapsed |-> <<>>]

\* the loop head, for i in 1..=max_iter
LoopFrom(next_i) ==
    IF next_i <= args.max_iter
    THEN pc' = "gradient" /\ i' = next_i
    ELSE pc' = "done" /\ UNCHANGED i

\* optimize_parameters up to the loop
Plain_Setup ==
    /\ variant = "plain" /\ pc = "setup"
    /\ parameters' = Plain_InitialParameters(kernel, noise)
    /\ clock' = [clock EXCEPT !.time_start = clock.now]
    /\ LoopFrom(1)
    /\ UNCHANGED <<variant, args, kernel, noise, covmat_cholesky,
                   had_significant_progress, scale, hist, bufVars>>

\* scaled_optimize_parameters up to the loop
Scaled_Setup ==
    /\ variant = "scaled" /\ pc = "setup"
    /\ parameters' = Scaled_InitialParameters(kernel)
    /\ clock' = [clock EXCEPT !.time_start = clock.now]
    /\ LoopFrom(1)
    /\ UNCHANGED <<variant, args, kernel, noise, covmat_cholesky,
                   had_significant_progress, scale, hist, bufVars>>

\* the gradient and the loop over the parameters
UpdateWith(steps) ==
    LET deltas == [p \in 1..Len(parameters) |-> Delta(steps[p])]
    IN  /\ parameters' = [p \in 1..Len(parameters) |->
                             Updated(parameters[p], deltas[p])]
        /\ had_significant_progress' =
               SignificantProgress(deltas, args.convergence_fraction)
        /\ hist' = [hist EXCEPT !.deltas = Append(@, deltas),
                               !.scales = IF variant = "scaled"
                                          THEN Append(@, scale') ELSE @]
        /\ pc' = "set"

Plain_Update ==
    /\ variant = "plain" /\ pc = "gradient"
    /\ \E steps \in [1..Len(parameters) -> AdamSteps] : UpdateWith(steps)
    /\ UNCHANGED <<variant, args, kernel, noise, covmat_cholesky, i, scale,
                   clock, bufVars>>

Scaled_Update ==
    /\ variant = "scaled" /\ pc = "gradient"
    /\ \E s \in Scales : scale' = s
    /\ \E steps \in [1..Len(parameters) -> AdamSteps] : UpdateWith(steps)
    /\ UNCHANGED <<variant, args, kernel, noise, covmat_cholesky, i,
                   clock, bufVars>>

\* "Sets parameters." in optimize_parameters
Plain_Set ==
    /\ variant = "plain" /\ pc = "set"
    /\ kernel' = Kernel_set_parameters(kernel, Plain_SetParametersArg(parameters))
    /\ noise' = Plain_NewNoise(parameters)
    /\ hist' = [hist EXCEPT !.set_parameters =
                                Append(@, Plain_SetParametersArg(parameters))]
    /\ pc' = "fit"
    /\ UNCHANGED <<variant, args, covmat_cholesky, parameters, i,
                   had_significant_progress, scale, clock, bufVars>>

\* "Set parameters." in scaled_optimize_parameters
Scaled_Set ==
    /\ variant = "scaled" /\ pc = "set"
    /\ kernel' = Kernel_rescale(Kernel_set_parameters(kernel, parameters),
                                Scaled_RescaleArg(scale))
    /\ noise' = Scaled_NewNoise(noise, scale)
    /\ parameters' = Kernel_get_parameters(kernel')
    /\ hist' = [hist EXCEPT !.set_parameters = Append(@, parameters),
                            !.rescale = Append(@, Scaled_RescaleArg(scale))]
    /\ pc' = "fit"
    /\ UNCHANGED <<variant, args, covmat_cholesky, i,
                   had_significant_progress, scale, clock, bufVars>>

\* "Fits model.": the iteration's time passes here
Fit ==
    /\ covmat_cholesky' = Refit(kernel, noise)
    /\ \E cost \in IterCosts : clock' = [clock EXCEPT !.now = @ + cost]
    /\ pc' = "check"
    /\ UNCHANGED <<variant, args, kernel, noise, parameters, i,
                   had_significant_progress, scale, hist, bufVars>>

Plain_Fit == variant = "plain" /\ pc = "fit" /\ Fit

Scaled_Fit == variant = "scaled" /\ pc = "fit" /\ Fit

\* the break, and otherwise the next turn of the loop
Check ==
    /\ hist' = [hist EXCEPT !.elapsed = Append(@, Elapsed)]
    /\ IF StopCondition(had_significant_progress, Elapsed, args.max_time)
       THEN pc' = "done" /\ UNCHANGED i
       ELSE LoopFrom(i + 1)
    /\ UNCHANGED <<variant, args, kernel, noise, covmat_cholesky, parameters,
                   had_significant_progress, scale, clock, bufVars>>

Plain_Check == variant = "plain" /\ pc = "check" /\ Check

Scaled_Check == variant = "scaled" /\ pc = "check" /\ Check

OptNext ==
    \/ Plain_Setup
    \/ Plain_Update
    \/ Plain_Set
    \/ Plain_Fit
    \/ Plain_Check
    \/ Scaled_Setup
    \/ Scaled_Update
    \/ Scaled_Set
    \/ Scaled_Fit
    \/ Scaled_Check

\* no container is in use during an optimizer call of the model
BufIdle ==
    /\ kind = "EVector"
    /\ data = <<>>
    /\ nrows = 0
    /\ last = [op |-> "new", rows |-> <<>>, ok |-> TRUE,
               preData |-> <<>>, preNrows |-> 0]

OptimizerInit == OptInit /\ BufIdle

OptSpec == OptimizerInit /\ [][OptNext]_vars

\* the call runs on its caller's thread, and every collaborator returns
OptFairSpec == OptSpec /\ WF_vars(OptNext)

-----------------------------------------------------------------------------
(* Properties of the containers, under BufferSpec *)

Capacity == Len(data)

PreView == ViewOf(last.preData, last.preNrows)

PreCapacity == Len(last.preData)

RequiredSize == last.preNrows + Len(last.rows)

\* C1: every add_rows with a block of the container's column count returns,
\* and the view afterwards is the view before followed by the block; with
\* the view d0 after new, the view is the concatenation d0, b1, ..., bN.
C1_AddRowsConcatenates ==
    last.op = "add_rows" => (last.ok /\ View = PreView \o last.rows)

\* C2: the capacity never decreases; an add_rows that needs more than the
\* capacity leaves max(required_size, floor(3 * capacity / 2)), any other
\* add_rows leaves the capacity as it was.
C2_CapacityPolicy ==
    /\ last.op # "new" => Capacity >= PreCapacity
    /\ (last.op = "add_rows" /\ RequiredSize > PreCapacity)
          => Capacity = Max(RequiredSize, (3 * PreCapacity) \div 2)
    /\ (last.op = "add_rows" /\ RequiredSize <= PreCapacity)
          => Capacity = PreCapacity

\* C3: the logical size never exceeds the capacity, the view has exactly
\* nrows rows, and no row of the view is a NaN row of a grown store.
C3_ViewExcludesSentinel ==
    /\ nrows <= Capacity
    /\ Len(View) = nrows
    /\ \A r \in 1..Len(View) : View[r] # NaNRow(kind)

\* C3's case: the store holds NaN rows behind the logical size
C3_Witness ==
    /\ last.op = "add_rows"
    /\ nrows > 0
    /\ Capacity > nrows
    /\ \A r \in (nrows + 1)..Capacity : data[r] = NaNRow(kind)

\* C4: assign fails exactly when the length of values differs from the
\* logical size and then changes nothing; otherwise the view afterwards is
\* values, and the logical size and the capacity are as before.
C4_Assign ==
    last.op = "assign" =>
        /\ last.ok <=> (Len(last.rows) = last.preNrows)
        /\ ~last.ok => (data = last.preData /\ nrows = last.preNrows)
        /\ last.ok => /\ View = last.rows
                      /\ nrows = last.preNrows
                      /\ Capacity = PreCapacity

\* C4's case: an assign that succeeds on a store with spare capacity and
\* replaces the content
C4_Witness ==
    /\ last.op = "assign"
    /\ last.ok
    /\ Capacity > nrows
    /\ nrows > 0
    /\ View # PreView

-----------------------------------------------------------------------------
(* Properties of the optimizers, under OptSpec and OptFairSpec *)

\* a == b as numbers
RealEq(a, b) == a.e = b.e /\ a.n * b.d = b.n * a.d

\* x * (1 + deltas[1][p]) * ... * (1 + deltas[c][p])
RECURSIVE UpdatedBy(_, _, _, _)
UpdatedBy(x, deltas, c, p) ==
    IF c = 0 THEN x
    ELSE Mul(UpdatedBy(x, deltas, c - 1, p), OnePlus(deltas[c][p]))

\* x * s[1] * ... * s[c]
RECURSIVE ScaledBy(_, _, _)
ScaledBy(x, s, c) ==
    IF c = 0 THEN x ELSE Mul(ScaledBy(x, s, c - 1), s[c])

\* the number of iterations the call has completed
Iterations == Len(hist.elapsed)

\* what the stop check of iteration j saw
NoProgressIn(j) ==
    ~\E p \in 1..Len(hist.deltas[j]) :
        AbsGreater(hist.deltas[j][p], args.convergence_fraction)

TimeExceededAfter(j) == hist.elapsed[j] > args.max_time

\* the time iteration j took
CostOf(j) == hist.elapsed[j] - (IF j = 1 THEN 0 ELSE hist.elapsed[j - 1])

C5_CountWhenDone ==
    (pc = "done" /\ args.max_iter >= 1) =>
        /\ Iterations \in 1..args.max_iter
        /\ Len(hist.deltas) = Iterations
        /\ Len(hist.set_parameters) = Iterations
        /\ \A j \in 1..(Iterations - 1) :
              ~(NoProgressIn(j) \/ TimeExceededAfter(j))
        /\ Iterations < args.max_iter =>
              (NoProgressIn(Iterations) \/ TimeExceededAfter(Iterations))
        /\ (args.max_iter >= 2
              /\ \A j \in 1..Iterations : CostOf(j) > args.max_time)
           => Iterations < args.max_iter

\* C5: for max_iter >= 1 the call terminates, and it has then run as many
\* iterations as the first one at whose end nothing progressed or max_time
\* was exceeded (max_iter if there is none): at least one, and fewer than
\* max_iter when every iteration takes longer than max_time.
C5_TerminatesWithCount == [](C5_CountWhenDone) /\ <>(pc = "done")

\* C5's case: a call stopped by the clock alone, before max_iter
C5_Witness ==
    /\ pc = "done"
    /\ args.max_iter >= 2
    /\ Iterations = 1
    /\ ~NoProgressIn(1)
    /\ TimeExceededAfter(1)

\* C6: a kernel parameter that is 0 when optimize_parameters starts is pushed
\* into the kernel as epsilon * (1 + delta) after the first iteration, which
\* is not 0.
C6_ZeroParameterBecomesNonzero ==
    (variant = "plain" /\ Len(hist.set_parameters) >= 1) =>
        \A p \in 1..Len(hist.kernel0) :
            IsZero(hist.kernel0[p]) =>
                /\ ~IsZero(hist.set_parameters[1][p])
                /\ RealEq(hist.set_parameters[1][p],
                          Mul(epsilon, OnePlus(hist.deltas[1][p])))
                /\ Iterations = 1 => ~IsZero(kernel[p])

\* C6's case: the first iteration of a call that started with a zero parameter
C6_Witness ==
    /\ variant = "plain"
    /\ Iterations = 1
    /\ \E p \in 1..Len(hist.kernel0) : IsZero(hist.kernel0[p])

\* C7: in scaled_optimize_parameters each returned scale is passed to
\* kernel.rescale, and the noise is the noise at the start times the scales
\* returned so far.
C7_NoiseIsScaled ==
    variant = "scaled" =>
        /\ Len(hist.scales) = Len(hist.rescale) + (IF pc = "set" THEN 1 ELSE 0)
        /\ hist.rescale = SubSeq(hist.scales, 1, Len(hist.rescale))
        /\ RealEq(noise, ScaledBy(hist.noise0, hist.scales, Len(hist.rescale)))

\* C7's case: two iterations that changed the noise
C7_Witness ==
    /\ variant = "scaled"
    /\ Len(hist.rescale) >= 2
    /\ ~RealEq(hist.scales[1], One)
    /\ ~RealEq(noise, hist.noise0)

\* C8: at every gradient evaluation, at every stop check and at the return
\* the stored factor is the one of the kernel and noise the model holds.
C8_FactorIsCurrent ==
    pc \in {"gradient", "check", "done"} =>
        covmat_cholesky = make_cholesky_cov_matrix(kernel, noise)

\* C8's case: a gradient evaluation after an iteration changed the kernel
C8_Witness ==
    /\ pc = "gradient"
    /\ i >= 2
    /\ kernel # hist.kernel0
    /\ noise # hist.noise0

\* C9: when the first iteration of optimize_parameters starts, no entry of
\* parameters is exactly zero.
C9_NoZeroEntry ==
    (variant = "plain" /\ pc = "gradient" /\ i = 1) =>
        \A p \in 1..Len(parameters) : ~IsZero(parameters[p])

\* C10 as stated: optimize_parameters passes exactly the kernel's parameters
\* to kernel.set_parameters, with no noise entry.
C10_OnlyKernelParameters ==
    variant = "plain" =>
        \A c \in 1..Len(hist.set_parameters) :
            Len(hist.set_parameters[c]) = Len(hist.kernel0)

\* C10 as amended: every vector passed to kernel.set_parameters holds the
\* kernel's parameters in the kernel's order, followed by one more entry, the
\* logarithm of the noise that the model is given in the same step.
C10_KernelParametersThenLogNoise ==
    variant = "plain" =>
        \A c \in 1..Len(hist.set_parameters) :
            LET v == hist.set_parameters[c]
                n == Len(hist.kernel0)
            IN  /\ Len(v) = n + 1
                /\ \A p \in 1..n :
                      RealEq(v[p], UpdatedBy(ReplaceZero(hist.kernel0[p]),
                                             hist.deltas, c, p))
                /\ RealEq(v[n + 1],
                          UpdatedBy(Ln(hist.noise0), hist.deltas, c, n + 1))
                /\ c = Len(hist.set_parameters) => noise = Exp(v[n + 1])

\* C10's case: the second call of set_parameters of a kernel of two parameters
C10_Witness ==
    /\ variant = "plain"
    /\ Len(hist.kernel0) = 2
    /\ Len(hist.set_parameters) = 2

====
